---- MODULE Spec2Model ----
(***************************************************************************)
(* Request/response lifecycle of the Claude chat extension                 *)
(* (src/src/extension.ts, lines 1-194): lazy client initialisation during  *)
(* activation, the chat participant handler, the language model provider   *)
(* (provideLanguageModelResponse, provideTokenCount) and handleError.      *)
(*                                                                         *)
(* Strings that are concatenated or tested for emptiness (prompts, message *)
(* contents) are sequences of one-character strings; opaque strings (keys, *)
(* error messages) are TLA+ strings.  A text written to the UI with        *)
(* stream.markdown is a sequence of string pieces.                         *)
(***************************************************************************)
EXTENDS Integers, Sequences, FiniteSets, TLC

\* ---------------------------------------------------------------- bounds
\* most text chunks the transport emits for one request
MaxChunks == 2

\* ------------------------------------------------------- program constants
max_tokens == 8192

claudeModel == [model |-> "claude-3-5-sonnet-20241022", max_tokens |-> max_tokens]

SecretKey == "claude.apiKey"

\* ------------------------------------------------------------ value domains
Undefined == "undefined"
NoClient == [defined |-> FALSE, apiKey |-> Undefined]

\* what the user can answer to the key prompt: cancel, empty input, a key
KeyInputs == {Undefined, "", "sk-ant-1"}

\* what secret storage can hold under SecretKey when the process starts
StoredKeys == {Undefined, "sk-ant-0"}

\* two invocation slots: one invocation can overlap another
Reqs == {1, 2}

\* the remote's answer, cut into the text chunks the transport emits; the
\* chunks are pairwise distinct so that their order is observable
AnswerChunks == <<"x", "y", "z">>

ChunkAt(i) == AnswerChunks[((i - 1) % Len(AnswerChunks)) + 1]

\* chat prompts (request.prompt): a free-text string, possibly empty
Prompts == {<<>>, <<"a">>}

\* the provider's `messages` argument: a list of messages, possibly empty
MessageLists ==
    {<<>>,
     <<[content |-> <<"a">>]>>,
     <<[content |-> <<>>]>>,
     <<[content |-> <<"a">>], [content |-> <<"b">>]>>}

\* the argument of provideTokenCount: a string or a chat message
TextInputs == [isString : BOOLEAN, content : {<<>>, <<"a">>}]

\* failure values: Error instances carry a message, anything else does not
ErrValues == {[isError |-> TRUE, message |-> "Overloaded"],
              [isError |-> FALSE, message |-> Undefined]}

\* answers of the token counting endpoint: no response, or {input_tokens}
CountResponses == {[present |-> FALSE, input_tokens |-> 0],
                   [present |-> TRUE, input_tokens |-> 0],
                   [present |-> TRUE, input_tokens |-> 7]}

VARIABLES
    anthropic,      \* the module-level client: NoClient or a client with its apiKey
    secrets,        \* context.secrets: the value stored under SecretKey
    act,            \* the activate() call and the initAnthropicClient() call it awaits
    registered,     \* chat participant and model provider are registered
    req,            \* the handler / provider invocations
    promptsShown,   \* number of showInputBox calls
    keyReads,       \* number of reads of the persisted key (context.secrets.get,
                    \* process.env.ANTHROPIC_API_KEY)
    build,          \* which build of extension.ts runs: "secrets" (lines 1-194)
                    \* or "env" (lines 196-342); fixed for the process
    env             \* process.env.ANTHROPIC_API_KEY ("env" build only)

vars == <<anthropic, secrets, act, registered, req, promptsShown, keyReads, build, env>>

\* ------------------------------------------------------------------ helpers
\* variant: only a cancelled prompt counts as a missing key
FalsyUndefinedOnly(v) == v = Undefined

\* variant: the guard of initAnthropicClient is dropped
ClientMissingAlways == TRUE

\* JavaScript `!apiKey` for string | undefined
Falsy(v) == v = Undefined \/ v = ""

\* `!anthropic`
ClientMissing == ~anthropic.defined

createMessages(userPrompt) == <<[role |-> "user", content |-> userPrompt]>>

createModelParamsStreaming(userPrompt) ==
    [messages |-> createMessages(userPrompt),
     stream |-> TRUE,
     model |-> claudeModel.model,
     max_tokens |-> claudeModel.max_tokens]

\* the request literal of the "env" build
legacy_max_tokens == 1000

LegacyParams(userPrompt) ==
    [messages |-> <<[role |-> "user", content |-> userPrompt]>>,
     stream |-> TRUE,
     model |-> "claude-3-5-sonnet-20240620",
     max_tokens |-> legacy_max_tokens]

\* the argument of anthropic.messages.stream(...) in the running build
StreamParams(userPrompt) ==
    IF build = "secrets" THEN createModelParamsStreaming(userPrompt)
                         ELSE LegacyParams(userPrompt)

\* variant: the contents are joined without a separator
RECURSIVE JoinNoSeparator(_)
JoinNoSeparator(parts) ==
    IF Len(parts) = 0 THEN <<>>
    ELSE parts[1] \o JoinNoSeparator(Tail(parts))

\* Array.prototype.join(' ') over the message contents
RECURSIVE Join(_)
Join(parts) ==
    IF Len(parts) = 0 THEN <<>>
    ELSE IF Len(parts) = 1 THEN parts[1]
    ELSE parts[1] \o <<" ">> \o Join(Tail(parts))

ConcatenatedContent(messages) ==
    Join([i \in 1..Len(messages) |-> messages[i].content])

\* { metadata: { command: 'claude_chat' } }
ChatResult == "claude_chat"

NoErr == [isError |-> FALSE, message |-> "-"]

\* One invocation of the handler or of a provider operation.
\*   kind       "none" (not invoked yet), "chat", "response", "count"
\*   pc         "idle", "awaiting" (suspended on the promise), "rejected" /
\*              "resolved" (promise settled, continuation not yet run), "done"
\*   transport  the remote call: "none", "open", "ended"
\*   input      the argument: request.prompt, the message list, or the text
\*   prompt     the prompt string handed to the request builder
\*   remote     the request bodies this invocation sent to the remote API
\*   produced   the text chunks the transport has emitted so far
\*   events     what the invocation's promise and sink have seen: "text" per
\*              relayed chunk, "error" / "completion" when the promise settles
\*   delivered  the writes to the UI transcript (stream.markdown) or to the
\*              progress sink (progress.report), in call order
\*   logged     the errors passed to logger.logError
\*   console    the lines written with console.error
\*   usage      number of logger.logUsage('request', ...) calls
\*   cancelled  the host has signalled cancellation for this invocation
\*   err        the value the promise was rejected with / the value thrown
\*   outcome    "pending", "returned", "rejected" (the failure reached the host)
\*   result     the returned value's tag; tokens: the returned token count
IdleReq ==
    [kind |-> "none", pc |-> "idle", transport |-> "none",
     input |-> <<>>, prompt |-> <<>>,
     remote |-> <<>>, produced |-> <<>>, events |-> <<>>, delivered |-> <<>>,
     logged |-> <<>>, console |-> <<>>, usage |-> 0,
     cancelled |-> FALSE, err |-> NoErr,
     outcome |-> "pending", result |-> Undefined, tokens |-> 0]

IdleAct == [pc |-> "start", apiKey |-> Undefined, error |-> Undefined]

Init ==
    /\ anthropic = NoClient
    /\ secrets \in StoredKeys
    /\ act = IdleAct
    /\ registered = FALSE
    /\ req = [r \in Reqs |-> IdleReq]
    /\ promptsShown = 0
    /\ keyReads = 0
    /\ build = "secrets"
    /\ env = Undefined

\* ------------------------------------------------ activation, client set-up
Client(apiKey) == [defined |-> TRUE, apiKey |-> apiKey]

\* activate() is called and runs initAnthropicClient up to its first await
ActivateCall ==
    /\ act.pc = "start"
    /\ IF ClientMissing
          THEN /\ act' = [act EXCEPT !.pc = "await_get"]
               /\ keyReads' = keyReads + 1
          ELSE /\ act' = [act EXCEPT !.pc = "init_returned"]
               /\ UNCHANGED keyReads
    /\ UNCHANGED <<anthropic, secrets, registered, req, promptsShown, build, env>>

\* context.secrets.get resolved
InitGotSecret ==
    /\ act.pc = "await_get"
    /\ IF Falsy(secrets)
          THEN /\ act' = [act EXCEPT !.pc = "await_input", !.apiKey = secrets]
               /\ promptsShown' = promptsShown + 1
               /\ UNCHANGED anthropic
          ELSE /\ act' = [act EXCEPT !.pc = "init_returned", !.apiKey = secrets]
               /\ anthropic' = Client(secrets)
               /\ UNCHANGED promptsShown
    /\ UNCHANGED <<secrets, registered, req, keyReads, build, env>>

\* variant: a dismissed key prompt is not an error, initialisation returns
InitInputNoThrow(v) ==
    /\ act.pc = "await_input"
    /\ IF Falsy(v)
          THEN act' = [act EXCEPT !.pc = "init_returned", !.apiKey = v]
          ELSE act' = [act EXCEPT !.pc = "await_store", !.apiKey = v]
    /\ UNCHANGED <<anthropic, secrets, registered, req, promptsShown, keyReads, build, env>>

\* variant: the client is constructed as soon as the key is entered
InitInputEager(v) ==
    /\ act.pc = "await_input"
    /\ IF Falsy(v)
          THEN /\ act' = [act EXCEPT !.pc = "failed", !.apiKey = v,
                                     !.error = "API Key is required"]
               /\ UNCHANGED anthropic
          ELSE /\ act' = [act EXCEPT !.pc = "await_store", !.apiKey = v]
               /\ anthropic' = Client(v)
    /\ UNCHANGED <<secrets, registered, req, promptsShown, keyReads, build, env>>

\* showInputBox resolved with the user's answer
InitInput(v) ==
    /\ act.pc = "await_input"
    /\ IF Falsy(v)
          THEN act' = [act EXCEPT !.pc = "failed", !.apiKey = v,
                                  !.error = "API Key is required"]
          ELSE act' = [act EXCEPT !.pc = "await_store", !.apiKey = v]
    /\ UNCHANGED <<anthropic, secrets, registered, req, promptsShown, keyReads, build, env>>

\* context.secrets.store wrote the key and resolved; the client is constructed
InitStored ==
    /\ act.pc = "await_store"
    /\ secrets' = act.apiKey
    /\ anthropic' = Client(act.apiKey)
    /\ act' = [act EXCEPT !.pc = "init_returned"]
    /\ UNCHANGED <<registered, req, promptsShown, keyReads, build, env>>

\* context.secrets.store rejected: initAnthropicClient and activate reject
InitStoreFailed ==
    /\ act.pc = "await_store"
    /\ act' = [act EXCEPT !.pc = "failed", !.error = "secrets.store failed"]
    /\ UNCHANGED <<anthropic, secrets, registered, req, promptsShown, keyReads, build, env>>

\* variant: activate swallows the failure of initAnthropicClient and registers
ActivateRegisterAfterFailure ==
    /\ act.pc \in {"init_returned", "failed"}
    /\ act' = [act EXCEPT !.pc = "active"]
    /\ registered' = TRUE
    /\ UNCHANGED <<anthropic, secrets, req, promptsShown, keyReads, build, env>>

\* initAnthropicClient returned: participant and provider are registered
ActivateRegister ==
    /\ act.pc = "init_returned"
    /\ act' = [act EXCEPT !.pc = "active"]
    /\ registered' = TRUE
    /\ UNCHANGED <<anthropic, secrets, req, promptsShown, keyReads, build, env>>

\* ------------------------------------------------------------ Error Reporter
\* variant: the client, with its key, is dumped to the console as well
handleErrorDumpsClient(q, err) ==
    [q EXCEPT !.console = Append(Append(@, anthropic.apiKey), "An error occurred"),
              !.delivered = Append(@, <<"An error occurred">>)]

\* variant: the generic text is surfaced for every failure
handleErrorGeneric(q, err) ==
    [q EXCEPT !.console = Append(@, "An unknown error occurred"),
              !.delivered = Append(@, <<"An unknown error occurred">>)]

\* handleError(logger, err, stream): what it adds to the invocation's sinks
handleError(q, err) ==
    IF err.isError
      THEN [q EXCEPT !.logged = Append(@, err),
                     !.console = Append(@, err.message),
                     !.delivered = Append(@, <<"An error occurred: ", err.message>>)]
      ELSE [q EXCEPT !.console = Append(@, "An unknown error occurred"),
                     !.delivered = Append(@, <<"An unknown error occurred">>)]

\* handleError of the "env" build: logger.logError(err) comes first
LegacyHandleError(q, err) ==
    LET l == [q EXCEPT !.logged = Append(@, err)]
    IN  IF err.isError
          THEN [l EXCEPT !.console = Append(@, err.message),
                         !.delivered = Append(@, <<"An error occurred: ", err.message>>)]
          ELSE [l EXCEPT !.console = Append(@, "An unknown error occurred"),
                         !.delivered = Append(@, <<"An unknown error occurred">>)]

\* the Error Reporter of the running build
ReportError(q, err) ==
    IF build = "secrets" THEN handleError(q, err) ELSE LegacyHandleError(q, err)

\* ------------------------------------------------- promise of one invocation
\* resolve(value) / reject(err) of the promise the invocation awaits: the first
\* call settles it, later calls have no effect
resolve(q) ==
    IF q.pc = "awaiting"
      THEN [q EXCEPT !.pc = "resolved", !.events = Append(@, "completion")]
      ELSE q

reject(q, err) ==
    IF q.pc = "awaiting"
      THEN [q EXCEPT !.pc = "rejected", !.err = err, !.events = Append(@, "error")]
      ELSE q

\* ------------------------------------------------------ the stream listeners
\* chat handler: .on('text'), .on('error'), .on('finalMessage')
\* variant: the chunk is put in front of the transcript
HandlerOnTextPrepend(q, text) ==
    [q EXCEPT !.delivered = <<<<text>>>> \o @, !.events = Append(@, "text")]

HandlerOnText(q, text) ==
    [q EXCEPT !.delivered = Append(@, <<text>>), !.events = Append(@, "text")]

\* variant: the error listener reports the error but never rejects
HandlerOnErrorNoReject(q, err) == ReportError(q, err)

HandlerOnError(q, err) == reject(ReportError(q, err), err)

HandlerOnFinalMessage(q) == resolve(q)

\* provider: .on('text'), .on('error'), .on('finalMessage')
ProviderOnText(q, text) ==
    [q EXCEPT !.delivered = Append(@, <<text>>), !.events = Append(@, "text")]

ProviderOnError(q, err) == reject(q, err)

ProviderOnFinalMessage(q) == resolve(q)

\* ------------------------------------------------------------- invocations
\* invocations are numbered in the order the host makes them
CanInvoke(r) ==
    /\ registered
    /\ req[r].kind = "none"
    /\ r > 1 => req[r - 1].kind # "none"

TypeErrorUndefined ==
    [isError |-> TRUE, message |-> "Cannot read properties of undefined"]

\* the promise executor of the chat handler: anthropic!.messages.stream(...)
HandlerExecutor(q, prompt) ==
    IF ClientMissing
      THEN reject([q EXCEPT !.pc = "awaiting"], TypeErrorUndefined)
      ELSE [q EXCEPT !.pc = "awaiting", !.transport = "open",
                     !.remote = Append(@, StreamParams(prompt))]

\* the host invokes the chat handler with request.prompt
HandlerCall(r, prompt) ==
    /\ CanInvoke(r)
    /\ req' = [req EXCEPT ![r] =
                 HandlerExecutor([req[r] EXCEPT !.kind = "chat", !.input = prompt,
                                                 !.prompt = prompt],
                                 prompt)]
    /\ UNCHANGED <<anthropic, secrets, act, registered, promptsShown, keyReads, build, env>>

\* variant: the catch block reports the error and issues the request again
HandlerCatchRetry(q) ==
    [ReportError(q, q.err) EXCEPT !.pc = "awaiting", !.transport = "open",
                                  !.remote = Append(@, StreamParams(q.prompt))]

\* variant: the catch block reports the error and rethrows it
HandlerCatchRethrow(q) ==
    [ReportError(q, q.err) EXCEPT !.pc = "done", !.outcome = "rejected"]

\* the catch block of the handler, then logUsage and the final return
HandlerCatch(q) ==
    [ReportError(q, q.err) EXCEPT !.usage = @ + 1, !.pc = "done",
                                  !.outcome = "returned", !.result = ChatResult]

\* variant: the usage event is logged on the way out of every invocation
HandlerReturnLogsUsage(q) ==
    [q EXCEPT !.usage = @ + 1, !.pc = "done", !.outcome = "returned",
              !.result = ChatResult]

\* `return await new Promise(...)` with the promise resolved
HandlerReturn(q) ==
    [q EXCEPT !.pc = "done", !.outcome = "returned", !.result = ChatResult]

\* the handler resumes after its promise settled
HandlerResume(r) ==
    /\ req[r].kind = "chat"
    /\ req[r].pc \in {"rejected", "resolved"}
    /\ req' = [req EXCEPT ![r] = IF req[r].pc = "rejected"
                                   THEN HandlerCatch(req[r])
                                   ELSE HandlerReturn(req[r])]
    /\ UNCHANGED <<anthropic, secrets, act, registered, promptsShown, keyReads, build, env>>

NotInitialized ==
    [isError |-> TRUE, message |-> "Anthropic client is not initialized."]

\* the promise executor of provideLanguageModelResponse
ProviderExecutor(q, messages) ==
    IF ClientMissing
      THEN reject([q EXCEPT !.pc = "awaiting"], NotInitialized)
      ELSE [q EXCEPT !.pc = "awaiting", !.transport = "open",
                     !.prompt = ConcatenatedContent(messages),
                     !.remote = Append(@, StreamParams(ConcatenatedContent(messages)))]

\* another extension invokes provideLanguageModelResponse(messages, ...)
ProvideResponseCall(r, messages) ==
    /\ CanInvoke(r)
    /\ req' = [req EXCEPT ![r] =
                 ProviderExecutor([req[r] EXCEPT !.kind = "response", !.input = messages],
                                  messages)]
    /\ UNCHANGED <<anthropic, secrets, act, registered, promptsShown, keyReads, build, env>>

\* `await new Promise(...)` in provideLanguageModelResponse: a rejection is
\* rethrown to the caller, a resolution lets the method return undefined
ProviderAwait(q) ==
    IF q.pc = "rejected"
      THEN [q EXCEPT !.pc = "done", !.outcome = "rejected"]
      ELSE [q EXCEPT !.pc = "done", !.outcome = "returned", !.result = "void"]

ProvideResponseResume(r) ==
    /\ req[r].kind = "response"
    /\ req[r].pc \in {"rejected", "resolved"}
    /\ req' = [req EXCEPT ![r] = ProviderAwait(req[r])]
    /\ UNCHANGED <<anthropic, secrets, act, registered, promptsShown, keyReads, build, env>>

CountFailed == [isError |-> TRUE, message |-> "Failed to count tokens."]

\* provideTokenCount(text) up to its await
TokenCountStart(q, text) ==
    IF ClientMissing
      THEN [q EXCEPT !.pc = "done", !.outcome = "rejected", !.err = NotInitialized]
      ELSE [q EXCEPT !.pc = "awaiting", !.transport = "open",
                     !.prompt = text.content,
                     !.remote = Append(@, [messages |-> createMessages(text.content),
                                           model |-> claudeModel.model])]

\* another extension invokes provideTokenCount(text)
ProvideTokenCountCall(r, text) ==
    /\ CanInvoke(r)
    /\ req' = [req EXCEPT ![r] = TokenCountStart([req[r] EXCEPT !.kind = "count",
                                                           !.input = text.content],
                                              text)]
    /\ UNCHANGED <<anthropic, secrets, act, registered, promptsShown, keyReads, build, env>>

\* provideTokenCount after `await anthropic.messages.countTokens(...)` resolved
TokenCountReturn(q, response) ==
    IF ~response.present
      THEN [q EXCEPT !.pc = "done", !.transport = "ended",
                     !.outcome = "rejected", !.err = CountFailed]
      ELSE [q EXCEPT !.pc = "done", !.transport = "ended",
                     !.outcome = "returned", !.result = "count",
                     !.tokens = response.input_tokens]

\* the counting endpoint answered
CountResponse(r, response) ==
    /\ req[r].kind = "count"
    /\ req[r].transport = "open"
    /\ req' = [req EXCEPT ![r] = TokenCountReturn(req[r], response)]
    /\ UNCHANGED <<anthropic, secrets, act, registered, promptsShown, keyReads, build, env>>

\* the counting call itself failed: the await rethrows to the caller
CountError(r, err) ==
    /\ req[r].kind = "count"
    /\ req[r].transport = "open"
    /\ req' = [req EXCEPT ![r] = [@ EXCEPT !.pc = "done", !.transport = "ended",
                                           !.outcome = "rejected", !.err = err]]
    /\ UNCHANGED <<anthropic, secrets, act, registered, promptsShown, keyReads, build, env>>

\* ------------------------------------------- the "env" build (lines 196-342)
\* activate() loads .env and registers the participant and the provider
LegacyActivate ==
    /\ act.pc = "start"
    /\ act' = [act EXCEPT !.pc = "active"]
    /\ registered' = TRUE
    /\ UNCHANGED <<anthropic, secrets, req, promptsShown, keyReads, build, env>>

\* The handler or provideLanguageModelResponse is invoked and runs
\* initAnthropicClient() up to its first await: the key prompt when neither a
\* client nor an environment key exists, else the await of its own return.
LegacyCall(r, kind, input) ==
    /\ CanInvoke(r)
    /\ LET q == [req[r] EXCEPT !.kind = kind, !.input = input]
       IN  IF ClientMissing
             THEN /\ keyReads' = keyReads + 1
                  /\ IF Falsy(env)
                       THEN /\ promptsShown' = promptsShown + 1
                            /\ req' = [req EXCEPT ![r] = [q EXCEPT !.pc = "init_input"]]
                            /\ UNCHANGED anthropic
                       ELSE /\ anthropic' = Client(env)
                            /\ req' = [req EXCEPT ![r] = [q EXCEPT !.pc = "init_done"]]
                            /\ UNCHANGED promptsShown
             ELSE /\ req' = [req EXCEPT ![r] = [q EXCEPT !.pc = "init_done"]]
                  /\ UNCHANGED <<anthropic, promptsShown, keyReads>>
    /\ UNCHANGED <<secrets, act, registered, build, env>>

KeyRequired == [isError |-> TRUE, message |-> "API Key is required"]

\* showInputBox resolved inside initAnthropicClient(): without a key the call
\* throws, and the awaiting handler / provider method rejects with it
LegacyInitInput(r, v) ==
    /\ req[r].pc = "init_input"
    /\ IF Falsy(v)
          THEN /\ req' = [req EXCEPT ![r] = [@ EXCEPT !.pc = "done", !.err = KeyRequired,
                                                     !.outcome = "rejected"]]
               /\ UNCHANGED anthropic
          ELSE /\ req' = [req EXCEPT ![r].pc = "init_done"]
               /\ anthropic' = Client(v)
    /\ UNCHANGED <<secrets, act, registered, promptsShown, keyReads, build, env>>

\* `await initAnthropicClient()` returned: the promise executor runs
LegacyInitReturned(r) ==
    /\ req[r].pc = "init_done"
    /\ req' = [req EXCEPT ![r] =
                 IF req[r].kind = "chat"
                   THEN HandlerExecutor([req[r] EXCEPT !.prompt = req[r].input],
                                        req[r].input)
                   ELSE ProviderExecutor(req[r], req[r].input)]
    /\ UNCHANGED <<anthropic, secrets, act, registered, promptsShown, keyReads, build, env>>

\* provideTokenCount of the "env" build: the length of the text, no remote call
LegacyTokenCount(r, text) ==
    /\ CanInvoke(r)
    /\ req' = [req EXCEPT ![r] = [@ EXCEPT !.kind = "count", !.input = text.content,
                                          !.prompt = text.content, !.pc = "done",
                                          !.outcome = "returned", !.result = "count",
                                          !.tokens = Len(text.content)]]
    /\ UNCHANGED <<anthropic, secrets, act, registered, promptsShown, keyReads, build, env>>

\* ---------------------------------------------------------------- transport
\* The vendor stream of one invocation: text events, then one 'error' or one
\* 'finalMessage'.  Listeners run synchronously inside the emitting step.
Streams(r) == req[r].kind \in {"chat", "response"} /\ req[r].transport = "open"

EmitText(r) ==
    /\ Streams(r)
    /\ Len(req[r].produced) < MaxChunks
    /\ LET text == ChunkAt(Len(req[r].produced) + 1)
           q == [req[r] EXCEPT !.produced = Append(@, text)]
       IN  req' = [req EXCEPT ![r] = IF q.kind = "chat" THEN HandlerOnText(q, text)
                                                        ELSE ProviderOnText(q, text)]
    /\ UNCHANGED <<anthropic, secrets, act, registered, promptsShown, keyReads, build, env>>

EmitError(r, err) ==
    /\ Streams(r)
    /\ LET q == [req[r] EXCEPT !.transport = "ended"]
       IN  req' = [req EXCEPT ![r] = IF q.kind = "chat" THEN HandlerOnError(q, err)
                                                        ELSE ProviderOnError(q, err)]
    /\ UNCHANGED <<anthropic, secrets, act, registered, promptsShown, keyReads, build, env>>

EmitFinalMessage(r) ==
    /\ Streams(r)
    /\ LET q == [req[r] EXCEPT !.transport = "ended"]
       IN  req' = [req EXCEPT ![r] = IF q.kind = "chat" THEN HandlerOnFinalMessage(q)
                                                        ELSE ProviderOnFinalMessage(q)]
    /\ UNCHANGED <<anthropic, secrets, act, registered, promptsShown, keyReads, build, env>>

\* the host signals cancellation of a streaming invocation; neither the handler
\* nor the provider reads the token, so only the host's flag changes
Cancel(r) ==
    /\ Streams(r)
    /\ ~req[r].cancelled
    /\ req' = [req EXCEPT ![r].cancelled = TRUE]
    /\ UNCHANGED <<anthropic, secrets, act, registered, promptsShown, keyReads, build, env>>

\* ------------------------------------------------------------ specification
Next ==
    \/ ActivateCall
    \/ InitGotSecret
    \/ \E v \in KeyInputs : InitInput(v)
    \/ InitStored
    \/ InitStoreFailed
    \/ ActivateRegister
    \/ \E r \in Reqs, prompt \in Prompts : HandlerCall(r, prompt)
    \/ \E r \in Reqs : HandlerResume(r)
    \/ \E r \in Reqs, messages \in MessageLists : ProvideResponseCall(r, messages)
    \/ \E r \in Reqs : ProvideResponseResume(r)
    \/ \E r \in Reqs, text \in TextInputs : ProvideTokenCountCall(r, text)
    \/ \E r \in Reqs, response \in CountResponses : CountResponse(r, response)
    \/ \E r \in Reqs, err \in ErrValues : CountError(r, err)
    \/ \E r \in Reqs : EmitText(r)
    \/ \E r \in Reqs, err \in ErrValues : EmitError(r, err)
    \/ \E r \in Reqs : EmitFinalMessage(r)
    \/ \E r \in Reqs : Cancel(r)

Spec == Init /\ [][Next]_vars

\* the "env" build: the client is set up by the first request that needs it
InitLegacy ==
    /\ anthropic = NoClient
    /\ secrets = Undefined
    /\ act = IdleAct
    /\ registered = FALSE
    /\ req = [r \in Reqs |-> IdleReq]
    /\ promptsShown = 0
    /\ keyReads = 0
    /\ build = "env"
    /\ env \in StoredKeys

NextLegacy ==
    \/ LegacyActivate
    \/ \E r \in Reqs, prompt \in Prompts : LegacyCall(r, "chat", prompt)
    \/ \E r \in Reqs, messages \in MessageLists : LegacyCall(r, "response", messages)
    \/ \E r \in Reqs, v \in KeyInputs : LegacyInitInput(r, v)
    \/ \E r \in Reqs : LegacyInitReturned(r)
    \/ \E r \in Reqs, text \in TextInputs : LegacyTokenCount(r, text)
    \/ \E r \in Reqs : HandlerResume(r)
    \/ \E r \in Reqs : ProvideResponseResume(r)
    \/ \E r \in Reqs : EmitText(r)
    \/ \E r \in Reqs, err \in ErrValues : EmitError(r, err)
    \/ \E r \in Reqs : EmitFinalMessage(r)
    \/ \E r \in Reqs : Cancel(r)

SpecLegacy == InitLegacy /\ [][NextLegacy]_vars

\* the transport of invocation r emits its terminal event
TransportEnds(r) == EmitFinalMessage(r) \/ \E err \in ErrValues : EmitError(r, err)

\* The transport eventually emits a completion or an error, and a settled
\* promise's continuation is eventually run by the event loop.
FairSpec ==
    /\ Spec
    /\ \A r \in Reqs : /\ WF_vars(TransportEnds(r))
                       /\ WF_vars(HandlerResume(r))
                       /\ WF_vars(ProvideResponseResume(r))

\* ================================================================== claims
Terminal == {"error", "completion"}

IsStreaming(q) == q.kind \in {"chat", "response"}

IsErrorReport(w) == w[1] \in {"An error occurred: ", "An unknown error occurred"}

ErrorReports(q) == {i \in 1..Len(q.delivered) : IsErrorReport(q.delivered[i])}

\* C1: a chat or provider request with a non-empty prompt sees text-chunk
\* events followed by exactly one terminal event: a terminal event is always
\* the last event, and once the transport has ended there is exactly one.
C1_OneTerminalEvent ==
    \A r \in Reqs :
        (IsStreaming(req[r]) /\ req[r].prompt # <<>>) =>
            LET ev == req[r].events
            IN  /\ \A i \in 1..Len(ev) : ev[i] \in Terminal => i = Len(ev)
                /\ req[r].transport = "ended" =>
                       Len(ev) >= 1 /\ ev[Len(ev)] \in Terminal

C1_Witness ==
    \E r \in Reqs :
        /\ req[r].kind = "chat"
        /\ req[r].prompt # <<>>
        /\ req[r].events = <<"text", "text", "error">>

\* C2 (as claimed): an Error the transport emits in the middle of a chat
\* request (after a chunk, non-empty prompt) is reported exactly once: one
\* error message in the transcript, one logError call.
C2_ErrorReportedOnce ==
    \A r \in Reqs :
        (/\ req[r].kind = "chat" /\ req[r].pc = "done"
         /\ req[r].prompt # <<>> /\ req[r].produced # <<>>
         /\ req[r].err \in ErrValues /\ req[r].err.isError) =>
            /\ Cardinality(ErrorReports(req[r])) = 1
            /\ Len(req[r].logged) = 1

\* C3: every chat-handler invocation eventually returns a ChatResult whose
\* command is 'claude_chat', whether the stream completes or fails.
C3_HandlerReturns ==
    \A r \in Reqs :
        (req[r].kind = "chat") ~>
            (req[r].outcome = "returned" /\ req[r].result = "claude_chat")

C3_Witness ==
    \E r \in Reqs :
        /\ req[r].kind = "chat"
        /\ req[r].err \in ErrValues
        /\ req[r].outcome = "returned"
        /\ req[r].result = "claude_chat"

\* C4 (as claimed): no failure of a remote call leaves the handler or a
\* provider operation as a rejection; stated for the streaming operations
\* with a non-empty prompt and an Error raised by the transport.
C4_NoFailureEscapes ==
    \A r \in Reqs :
        (/\ IsStreaming(req[r]) /\ req[r].prompt # <<>>
         /\ req[r].err \in ErrValues /\ req[r].err.isError) =>
            req[r].outcome # "rejected"

\* C5 (as claimed): for an empty prompt (chat) or an empty message list
\* (provider) no remote request is issued and nothing is reported.
C5_EmptyPromptNoRemoteCall ==
    \A r \in Reqs :
        (IsStreaming(req[r]) /\ req[r].input = <<>>) =>
            /\ req[r].remote = <<>>
            /\ req[r].delivered = <<>>

\* C6 (as claimed): provideTokenCount on empty input returns 0 and issues no
\* remote counting request.
C6_EmptyCountNoRemoteCall ==
    \A r \in Reqs :
        (req[r].kind = "count" /\ req[r].input = <<>>) =>
            /\ req[r].remote = <<>>
            /\ req[r].pc = "done" => (req[r].outcome = "returned" /\ req[r].tokens = 0)

\* C7: once a client exists, no step shows the key prompt or reads the
\* persisted key again, and while no earlier prompt is still open the client
\* is never replaced.
C7_NoPromptAfterInit ==
    [][anthropic.defined =>
          /\ promptsShown' = promptsShown
          /\ keyReads' = keyReads
          /\ (\A r \in Reqs : req[r].pc # "init_input") => anthropic' = anthropic]_vars

C7_Witness ==
    /\ promptsShown = 1
    /\ keyReads = 1
    /\ \A r \in Reqs : req[r].pc = "done" /\ req[r].remote # <<>>

\* the key prompt was answered with a cancel or an empty key
KeyRefused ==
    /\ act.pc \notin {"start", "await_get", "await_input"}
    /\ act.apiKey \in {Undefined, ""}

\* C8: when the key prompt is cancelled or answered with an empty key,
\* initialisation fails with 'API Key is required', the client stays undefined,
\* nothing is written to secret storage and no remote call is made.
C8_RefusedKeyFailsInit ==
    KeyRefused =>
        /\ act.pc = "failed"
        /\ act.error = "API Key is required"
        /\ ClientMissing
        /\ secrets = Undefined
        /\ \A r \in Reqs : req[r].remote = <<>>

C8_Witness ==
    /\ act.pc = "failed"
    /\ act.apiKey = ""
    /\ promptsShown = 1

\* C9 (as claimed): once the host has signalled cancellation of an invocation,
\* no further text chunk is relayed and no completion or error event fires.
C9_NothingAfterCancel ==
    [][\A r \in Reqs :
          (req[r].cancelled /\ req[r].prompt # <<>>) =>
              req'[r].events = req[r].events]_vars

\* C10: the transcript (or progress sink) holds one write per chunk the
\* transport has produced, in the transport's order; only error reports may
\* follow the chunks, and they never replace a delivered chunk.
C10_DeliveredIsProduced ==
    \A r \in Reqs :
        IsStreaming(req[r]) =>
            LET n == Len(req[r].produced)
                d == req[r].delivered
            IN  /\ Len(d) >= n
                /\ \A i \in 1..n : d[i] = <<req[r].produced[i]>>
                /\ \A i \in (n + 1)..Len(d) : IsErrorReport(d[i])
                /\ req[r].transport = "open" => Len(d) = n

C10_Witness ==
    \E r \in Reqs :
        /\ req[r].kind = "chat"
        /\ Len(req[r].produced) = 2
        /\ Len(req[r].delivered) > 2

\* C11 (as claimed): every failure handed to handleError, Error instance or
\* not, is written to the telemetry logger together with its UI message: a
\* chat invocation has as many logError entries as error reports.
C11_EveryFailureLogged ==
    \A r \in Reqs :
        (req[r].kind = "chat" /\ req[r].prompt # <<>>) =>
            Len(req[r].logged) = Cardinality(ErrorReports(req[r]))

\* the UI message the Error Reporter owes for a failure value
ExpectedMessage(err) ==
    IF err.isError THEN <<"An error occurred: ", err.message>>
                   ELSE <<"An unknown error occurred">>

\* a step of chat invocation r in which handleError is called: the 'error'
\* listener (the promise becomes rejected) or the catch block (the handler
\* leaves the rejected promise)
CallsHandleError(r) ==
    /\ req[r].kind = "chat"
    /\ \/ req[r].pc = "awaiting" /\ req'[r].pc = "rejected"
       \/ req[r].pc = "rejected" /\ req'[r].pc = "done"

\* C12: each handleError call writes exactly one UI message: 'An error
\* occurred: <message>' for an Error, 'An unknown error occurred' otherwise.
C12_OneMessagePerCall ==
    [][\A r \in Reqs :
          CallsHandleError(r) =>
              req'[r].delivered = Append(req[r].delivered, ExpectedMessage(req'[r].err))]_vars

C12_Witness ==
    \E r \in Reqs :
        /\ req[r].kind = "chat"
        /\ req[r].pc = "rejected"
        /\ req[r].err.isError
        /\ req[r].delivered = <<<<"x">>, <<"An error occurred: ", "Overloaded">>>>

\* C13: an invocation issues at most one remote request, so at most one is in
\* flight, and once its remote call has ended (failed or completed) no further
\* request is issued by it.
C13_AtMostOneRequest ==
    [][\A r \in Reqs :
          /\ Len(req'[r].remote) <= 1
          /\ req[r].transport = "ended" =>
                 /\ req'[r].remote = req[r].remote
                 /\ req'[r].transport = "ended"]_vars

C13_Witness ==
    \E r \in Reqs :
        /\ req[r].kind = "chat"
        /\ req[r].pc = "done"
        /\ req[r].err \in ErrValues
        /\ Len(req[r].remote) = 1

\* the key values the process holds: stored, entered, or in the client
KeysInUse ==
    {k \in {secrets, env, act.apiKey, anthropic.apiKey} : k \notin {Undefined, ""}}

\* C14: no key value is part of a telemetry entry, a console line, a UI
\* message or the activation error, in any reachable state.
C14_KeyNeverLogged ==
    /\ act.error \notin KeysInUse
    /\ \A r \in Reqs :
          /\ \A i \in 1..Len(req[r].logged) : req[r].logged[i].message \notin KeysInUse
          /\ \A i \in 1..Len(req[r].console) : req[r].console[i] \notin KeysInUse
          /\ \A i \in 1..Len(req[r].delivered) :
                 \A j \in 1..Len(req[r].delivered[i]) :
                     req[r].delivered[i][j] \notin KeysInUse

C14_Witness ==
    /\ anthropic.apiKey = "sk-ant-1"
    /\ \E r \in Reqs :
          /\ req[r].kind = "chat"
          /\ req[r].pc = "done"
          /\ Len(req[r].logged) = 2
          /\ Len(req[r].console) = 2

\* the prompt a remote streaming request carries
SentPrompt(q) == q.remote[1].messages[1].content

\* C15: the provider sends the messages' contents joined by one space (the
\* empty string for no message, the content itself for one message, a + " " + b
\* for two); the chat handler sends request.prompt unchanged.
C15_PromptAssembly ==
    \A r \in Reqs :
        (IsStreaming(req[r]) /\ req[r].remote # <<>>) =>
            LET in == req[r].input
            IN  IF req[r].kind = "chat"
                  THEN SentPrompt(req[r]) = in
                  ELSE /\ Len(in) = 0 => SentPrompt(req[r]) = <<>>
                       /\ Len(in) = 1 => SentPrompt(req[r]) = in[1].content
                       /\ Len(in) = 2 =>
                              SentPrompt(req[r]) = in[1].content \o <<" ">> \o in[2].content
                       /\ Len(in) <= 2

C15_Witness ==
    \E r \in Reqs :
        /\ req[r].kind = "response"
        /\ Len(req[r].input) = 2
        /\ SentPrompt(req[r]) = <<"a", " ", "b">>

\* C16 (as claimed): under any interleaving of requests that start while no
\* client exists, the key prompt is shown at most once and the shared client,
\* once assigned, is never assigned again.
C16_ClientWrittenOnce ==
    /\ [](promptsShown <= 1)
    /\ [][anthropic.defined => anthropic' = anthropic]_vars

\* the phase of one invocation, read off its position in the handler
Phase(q) ==
    CASE q.kind = "none" -> "idle"
      [] q.pc \in {"init_input", "init_done"} -> "awaiting_credential"
      [] q.pc \in {"awaiting", "rejected", "resolved"} -> "streaming"
      [] q.pc = "done" /\ q.err = NoErr -> "completed"
      [] OTHER -> "failed"

PhaseSteps ==
    {<<"idle", "awaiting_credential">>, <<"idle", "streaming">>,
     <<"idle", "failed">>, <<"awaiting_credential", "streaming">>,
     <<"awaiting_credential", "failed">>, <<"streaming", "completed">>,
     <<"streaming", "failed">>}

\* C17 (as claimed): a chat invocation moves only along idle ->
\* awaiting_credential -> streaming -> completed or failed; it starts
\* streaming only with an initialised client and an open transport, and while
\* a client exists an invocation that has not streamed yet reaches no
\* terminal phase.
C17_HandlerPhases ==
    [][\A r \in Reqs :
          req'[r].kind = "chat" =>
              /\ Phase(req[r]) # Phase(req'[r]) =>
                     <<Phase(req[r]), Phase(req'[r])>> \in PhaseSteps
              /\ (Phase(req[r]) # "streaming" /\ Phase(req'[r]) = "streaming") =>
                     (anthropic'.defined /\ req'[r].transport = "open")
              /\ (anthropic.defined
                    /\ Phase(req[r]) \in {"idle", "awaiting_credential"}) =>
                     Phase(req'[r]) \notin {"completed", "failed"}]_vars

\* C18: once the participant and the provider are registered the client
\* exists, so no invocation fails with 'Anthropic client is not initialized.'
\* or dereferences an undefined client.
C18_ClientInitialised ==
    /\ registered => anthropic.defined
    /\ \A r \in Reqs :
           req[r].kind # "none" =>
               /\ anthropic.defined
               /\ req[r].err.message \notin
                      {"Anthropic client is not initialized.",
                       "Cannot read properties of undefined"}

C18_Witness ==
    /\ promptsShown = 1
    /\ req[1].kind = "chat" /\ req[1].remote # <<>>
    /\ req[2].kind \in {"response", "count"} /\ req[2].remote # <<>>

\* C19: a key entered at the prompt is in the secret store before the client
\* is constructed and before initialisation returns, and a failed store
\* leaves no client behind.
C19_StoredBeforeClient ==
    /\ (promptsShown > 0 /\ anthropic.defined) =>
           (secrets = anthropic.apiKey /\ secrets \notin {Undefined, ""})
    /\ (promptsShown > 0 /\ act.pc \in {"init_returned", "active"}) =>
           (secrets = act.apiKey /\ secrets \notin {Undefined, ""})
    /\ act.error = "secrets.store failed" => ~anthropic.defined

C19_Witness ==
    /\ promptsShown = 1
    /\ act.pc = "init_returned"
    /\ anthropic = [defined |-> TRUE, apiKey |-> "sk-ant-1"]
    /\ secrets = "sk-ant-1"

\* C20 (as claimed): every streaming request sent, by the handler or by the
\* provider, carries model 'claude-3-5-sonnet-20241022', max_tokens 8192,
\* stream = true and one user message holding the assembled prompt.
C20_FixedRequestParams ==
    \A r \in Reqs :
        IsStreaming(req[r]) =>
            \A i \in 1..Len(req[r].remote) :
                req[r].remote[i] =
                    [messages |-> <<[role |-> "user", content |-> req[r].prompt]>>,
                     stream |-> TRUE,
                     model |-> "claude-3-5-sonnet-20241022",
                     max_tokens |-> max_tokens]

\* C21: the chat handler logs the 'request' usage event only when the
\* invocation failed: the continuation of a resolved promise returns the
\* result without logging usage, the continuation of a rejected promise
\* logs usage exactly once, in the step whose last transcript write is the
\* error report of the catch block.
C21_UsageOnlyOnFailure ==
    [][\A r \in Reqs :
          req'[r].kind = "chat" =>
              /\ req'[r].usage # req[r].usage =>
                     /\ req[r].pc = "rejected" /\ req'[r].pc = "done"
                     /\ req[r].usage = 0 /\ req'[r].usage = 1
                     /\ Len(req'[r].delivered) = Len(req[r].delivered) + 1
                     /\ IsErrorReport(req'[r].delivered[Len(req'[r].delivered)])
              /\ (req[r].pc = "resolved" /\ req'[r].pc = "done") =>
                     /\ req'[r].usage = 0
                     /\ req'[r].outcome = "returned"
                     /\ req'[r].err.message = "-"
              /\ (req[r].pc = "rejected" /\ req'[r].pc = "done") =>
                     req'[r].usage = 1]_vars

C21_Witness ==
    /\ req[1].kind = "chat" /\ req[1].pc = "done"
    /\ req[1].events = <<"text", "completion">> /\ req[1].usage = 0
    /\ req[2].kind = "chat" /\ req[2].pc = "done"
    /\ req[2].events = <<"text", "error">> /\ req[2].usage = 1

\* C22: when the key prompt shown during activation is cancelled or left
\* empty, activation fails with nothing registered: no handler or provider
\* invocation ever starts and no remote call is made.
C22_NothingRegisteredAfterRefusal ==
    (promptsShown > 0 /\ act.pc # "await_input"
        /\ act.apiKey \in {Undefined, ""}) =>
        /\ act.pc = "failed"
        /\ ~registered
        /\ \A r \in Reqs : req[r].kind = "none" /\ req[r].remote = <<>>

C22_Witness ==
    /\ act.pc = "failed"
    /\ act.apiKey = Undefined
    /\ act.error = "API Key is required"
    /\ promptsShown = 1
    /\ ~registered

====
